---- MODULE Spec2Model ----
(***************************************************************************)
(* The EIP-1193 provider bridge of src/app/(tabs)/explore.tsx.             *)
(*                                                                         *)
(* Two sides exchange JSON text:                                           *)
(*   - the injected provider (the script held in injectedJavaScript),      *)
(*     running in the web content: window.ethereum.request posts an        *)
(*     ETH_REQUEST and registers a 'message' listener that settles the     *)
(*     returned promise;                                                   *)
(*   - the host bridge (the App component): handleWebViewMessage parses    *)
(*     the text and calls onEthereumRequest, which answers through         *)
(*     sendWebViewResponse, at once or from an Alert button.               *)
(*                                                                         *)
(* JavaScript values are records [t, s]: t is the type tag and s the list  *)
(* of text fragments (a string is the concatenation of its fragments, an   *)
(* array of strings has one fragment per element).                         *)
(***************************************************************************)
EXTENDS Naturals, Sequences, FiniteSets, TLC

(* ------------------------------ bounds -------------------------------- *)

\* calls of window.ethereum.request the model follows
MaxCalls == 2

\* requests the host dispatches (onEthereumRequest invocations) the model follows
MaxReqs == 2

(* --------------------------- JavaScript values ------------------------ *)

Undefined == [t |-> "undefined", s |-> << >>]

Null == [t |-> "null", s |-> << >>]

Str(x) == [t |-> "string", s |-> <<x>>]

\* a template literal `${a}${b}`
Template(a, b) == [t |-> "string", s |-> <<a, b>>]

Arr(x) == [t |-> "array", s |-> <<x>>]

\* the text of a string value contains the text x
Contains(v, x) == v.t = "string" /\ \E i \in DOMAIN v.s : v.s[i] = x

Bool(b) == [t |-> "boolean", s |-> <<IF b THEN "true" ELSE "false">>]

\* JavaScript truthiness: undefined, null, false and '' are falsy
Truthy(v) == v.t \notin {"undefined", "null"} /\ v # Str("") /\ v # Bool(FALSE)

\* a || b
OrElse(a, b) == IF Truthy(a) THEN a ELSE b

(* ------------------------------ methods ------------------------------- *)

GatedMethods == {"eth_requestAccounts", "eth_sendTransaction", "personal_sign"}

ImmediateMethods == {"eth_chainId", "net_version", "eth_accounts", "wallet_switchEthereumChain"}

SupportedMethods == GatedMethods \cup ImmediateMethods

\* one method outside the dispatch table stands for all of them
UnknownMethods == {"eth_foo"}

Methods == SupportedMethods \cup UnknownMethods

\* shapes of the params field: missing, lists of 0..2 elements, a string, a plain object
ParamShapes == {"absent", "list0", "list1", "list2", "string", "object"}

(* ------------------------------ state --------------------------------- *)

VARIABLES
  ethereum,   \* window.ethereum: "none", "foreign" (another provider) or "ours"
  timer,      \* the auto-connect setTimeout: "unset", "armed" or "fired"
  calls,      \* every request() call in issue order: [method, state, value, by, group]
  listeners,  \* the window's 'message' listeners, by call, in registration order
  outbox,     \* texts posted with window.ReactNativeWebView.postMessage, not yet taken
  webLast,    \* what the content side did last: [op, type, method] (type and method of the text taken)
  hostReqs,   \* every onEthereumRequest invocation: [method, params, via, call, decision]
  log,        \* the console.log lines of sendWebViewResponse: [req, method, success, data]
  sent,       \* the texts posted to the WebView: [req, type, method, success, result, errorMessage]
  toasts,     \* the toasts shown: [kind, text]
  hostLast    \* what the host side did last

webVars == <<ethereum, timer, calls, listeners, outbox, webLast>>

hostVars == <<hostReqs, log, sent, toasts, hostLast>>

vars == <<ethereum, timer, calls, listeners, outbox, webLast, hostReqs, log, sent, toasts, hostLast>>

(* --------------------------- mock wallet values ----------------------- *)

MockAccounts == Arr("0xDUMMY_WALLET_ADDRESS")

MockChainId == Str("0x1")

MockNetVersion == Str("1")

MockTxHash == Str("0xDUMMY_TRANSACTION_HASH")

MockSignature == Str("0xFAKE_SIGNATURE")

(* ------------------------------ host bridge --------------------------- *)

\* sendWebViewResponse(method, success, resultOrError) for the request r: it writes
\* one console line; the postMessage to the WebView is commented out in the source,
\* so nothing is posted.
SendWebViewResponse(r, method, success, resultOrError) ==
  /\ log' = Append(log, [req |-> r, method |-> method, success |-> success, data |-> resultOrError])
  /\ sent' = sent

\* const [message, address] = params || []  throws a TypeError on a value that is
\* truthy and not iterable
DestructureThrows(params) == params = "object"

\* what each case of the switch does: "alert", "respond" or "throw"
Branch(method, params) ==
  IF method \in {"eth_requestAccounts", "eth_sendTransaction"} THEN "alert"
  ELSE IF method = "personal_sign" THEN (IF DestructureThrows(params) THEN "throw" ELSE "alert")
  ELSE "respond"

\* the arguments of sendWebViewResponse in the cases that answer at once
ImmediateReply(method) ==
  CASE method = "eth_chainId" -> [success |-> TRUE, data |-> MockChainId]
    [] method = "net_version" -> [success |-> TRUE, data |-> MockNetVersion]
    [] method = "eth_accounts" -> [success |-> TRUE, data |-> MockAccounts]
    [] method = "wallet_switchEthereumChain" -> [success |-> TRUE, data |-> Null]
    [] OTHER -> [success |-> FALSE, data |-> Template("Method not supported: ", method)]

\* the toast of the cases that answer at once (eth_chainId, net_version and
\* eth_accounts show none)
ImmediateToast(method) ==
  CASE method = "wallet_switchEthereumChain" ->
         << [kind |-> "plain", text |-> Str("Switching Ethereum chain (mock success).")] >>
    [] method \in {"eth_chainId", "net_version", "eth_accounts"} -> << >>
    [] OTHER -> << [kind |-> "error", text |-> Template("Method not supported: ", method)] >>

\* the arguments of sendWebViewResponse in the onPress of each Alert button
ButtonReply(method, button) ==
  CASE method = "eth_requestAccounts" /\ button = "approve" -> [success |-> TRUE, data |-> MockAccounts]
    [] method = "eth_requestAccounts" /\ button = "reject" -> [success |-> FALSE, data |-> Str("User rejected connection")]
    [] method = "eth_sendTransaction" /\ button = "approve" -> [success |-> TRUE, data |-> MockTxHash]
    [] method = "eth_sendTransaction" /\ button = "reject" -> [success |-> FALSE, data |-> Str("User rejected transaction")]
    [] method = "personal_sign" /\ button = "approve" -> [success |-> TRUE, data |-> MockSignature]
    [] method = "personal_sign" /\ button = "reject" -> [success |-> FALSE, data |-> Str("User rejected signature")]

\* the toast in the onPress of each Alert button
ButtonToast(method, button) ==
  CASE method = "eth_requestAccounts" /\ button = "approve" -> [kind |-> "success", text |-> Str("Wallet connected (mock).")]
    [] method = "eth_requestAccounts" /\ button = "reject" -> [kind |-> "error", text |-> Str("User rejected wallet connection.")]
    [] method = "eth_sendTransaction" /\ button = "approve" -> [kind |-> "success", text |-> Template("Transaction approved (mock): ", "0xDUMMY_TRANSACTION_HASH")]
    [] method = "eth_sendTransaction" /\ button = "reject" -> [kind |-> "error", text |-> Str("Transaction rejected.")]
    [] method = "personal_sign" /\ button = "approve" -> [kind |-> "success", text |-> Template("Signed: ", "0xFAKE_SIGNA...")]
    [] method = "personal_sign" /\ button = "reject" -> [kind |-> "error", text |-> Str("Signature rejected.")]

\* onEthereumRequest(method, params), reached from a message of the call c (0: no
\* call) or from the debug button. A throw leaves through the caller.
OnEthereumRequest(method, params, via, c) ==
  LET r == Len(hostReqs) + 1
      b == Branch(method, params)
      entry(d) == [method |-> method, params |-> params, via |-> via, call |-> c, decision |-> d]
  IN  /\ Len(hostReqs) < MaxReqs
      /\ \/ /\ b = "alert"
            /\ hostReqs' = Append(hostReqs, entry("open"))
            /\ UNCHANGED <<log, sent, toasts>>
         \/ /\ b = "respond"
            /\ hostReqs' = Append(hostReqs, entry("none"))
            /\ toasts' = toasts \o ImmediateToast(method)
            /\ SendWebViewResponse(r, method, ImmediateReply(method).success, ImmediateReply(method).data)
         \/ /\ b = "throw"
            /\ hostReqs' = Append(hostReqs, entry("threw"))
            /\ UNCHANGED <<log, sent, toasts>>

\* the texts handleWebViewMessage can be handed: not JSON, the JSON text null, or
\* a JSON object with (or without) the fields type, method and params
NonJson == [kind |-> "text", type |-> "absent", method |-> "absent", params |-> "absent"]

JsonNull == [kind |-> "null", type |-> "absent", method |-> "absent", params |-> "absent"]

RequestText(method, params) == [kind |-> "object", type |-> "ETH_REQUEST", method |-> method, params |-> params]

HostPayloads ==
  {NonJson, JsonNull}
    \cup [kind : {"object"}, type : {"absent", "ETH_RESPONSE"}, method : {"eth_chainId", "eth_requestAccounts"}, params : {"absent"}]
    \cup {RequestText(m, "absent") : m \in Methods}
    \cup {RequestText("personal_sign", p) : p \in ParamShapes}

\* JSON.parse(text) throws, or reading .type of the parsed value does
ParseThrows(p) == p.kind \in {"text", "null"}

\* handleWebViewMessage(event) on the text p, which came from the call c (0: none)
HandleWebViewMessage(p, c) ==
  IF ParseThrows(p)
  THEN /\ hostLast' = "warned"
       /\ UNCHANGED <<hostReqs, log, sent, toasts>>
  ELSE IF p.type = "ETH_REQUEST"
  THEN /\ OnEthereumRequest(p.method, p.params, "message", c)
       /\ hostLast' = IF Branch(p.method, p.params) = "throw" THEN "warned" ELSE "dispatched"
  ELSE /\ hostLast' = "ignored"
       /\ UNCHANGED <<hostReqs, log, sent, toasts>>

\* the host is handed a text that no request() call of the page produced
HostReceive ==
  /\ \E p \in HostPayloads : HandleWebViewMessage(p, 0)
  /\ UNCHANGED webVars

\* the button 'Debug: Manually Connect'
DebugButton ==
  /\ OnEthereumRequest("eth_requestAccounts", "absent", "button", 0)
  /\ hostLast' = "dispatched"
  /\ UNCHANGED webVars

\* the user presses a button of the open Alert of request r
PressButton(r, button) ==
  /\ hostReqs[r].decision = "open"
  /\ hostReqs' = [hostReqs EXCEPT ![r].decision = button]
  /\ toasts' = Append(toasts, ButtonToast(hostReqs[r].method, button))
  /\ SendWebViewResponse(r, hostReqs[r].method, ButtonReply(hostReqs[r].method, button).success,
                         ButtonReply(hostReqs[r].method, button).data)
  /\ hostLast' = "pressed"

Decide ==
  /\ \E r \in DOMAIN hostReqs : \E button \in {"approve", "reject"} : PressButton(r, button)
  /\ UNCHANGED webVars

(* --------------------------- injected provider ------------------------ *)

\* the methods the page calls request() with: one gated, one immediate, one unknown
PageMethods == {"eth_requestAccounts", "eth_chainId", "eth_foo"}

\* the (method, params) pairs the page passes to request()
PageInputs == {<<m, "absent">> : m \in PageMethods}

\* JSON.stringify({type: 'ETH_REQUEST', method, params}): a params of undefined
\* leaves no params key in the text
Stringify(method, params) == RequestText(method, params)

\* a step of the content side that takes no text
Did(op) == [op |-> op, type |-> "none", method |-> "none"]

RunInjectedScriptNoGuard ==
  /\ webLast = Did("idle")
  /\ ethereum' = "ours"
  /\ timer' = "armed"
  /\ webLast' = Did("installed")
  /\ UNCHANGED <<calls, listeners, outbox>>
  /\ UNCHANGED hostVars

\* the injected script runs: with a window.ethereum in place it returns at once,
\* otherwise it installs the provider and arms the auto-connect timer
RunInjectedScript ==
  /\ webLast = Did("idle")
  /\ IF ethereum # "none"
     THEN /\ webLast' = Did("skipped")
          /\ UNCHANGED <<ethereum, timer>>
     ELSE /\ ethereum' = "ours"
          /\ timer' = "armed"
          /\ webLast' = Did("installed")
  /\ UNCHANGED <<calls, listeners, outbox>>
  /\ UNCHANGED hostVars

\* the texts a 'message' event of the window can carry
WebNonJson ==
  [kind |-> "text", type |-> "absent", method |-> "absent",
   success |-> Undefined, result |-> Undefined, errorMessage |-> Undefined]

WebJsonNull == [WebNonJson EXCEPT !.kind = "null"]

NoText == [WebNonJson EXCEPT !.kind = "none"]

\* the promise of a request() call: pending, then fulfilled or rejected with a
\* value. by is the text that settled it, group the number of calls the same
\* event settled.
NewCall(method) ==
  [method |-> method, state |-> "pending", value |-> Undefined, by |-> NoText, group |-> 0]

\* eip1193Provider.request({method, params}): post the text, register the listener
Request(method, params) ==
  LET c == Len(calls) + 1
  IN  /\ ethereum = "ours"
      /\ Len(calls) < MaxCalls
      /\ calls' = Append(calls, NewCall(method))
      /\ outbox' = Append(outbox, [text |-> Stringify(method, params), call |-> c])
      /\ listeners' = Append(listeners, c)

\* the hosted page calls window.ethereum.request (the model keeps one of its
\* MaxCalls calls for the armed timer, whose callback always runs)
PageRequest ==
  /\ Len(calls) + (IF timer = "armed" THEN 1 ELSE 0) < MaxCalls
  /\ \E in \in PageInputs : Request(in[1], in[2])
  /\ webLast' = Did("request")
  /\ UNCHANGED <<ethereum, timer>>
  /\ UNCHANGED hostVars

AutoConnectRepeats ==
  /\ timer = "armed"
  /\ timer' = "armed"
  /\ Request("eth_requestAccounts", "absent")
  /\ webLast' = Did("timer")
  /\ UNCHANGED ethereum
  /\ UNCHANGED hostVars

\* the setTimeout callback of the script, 3000 ms after installation
AutoConnect ==
  /\ timer = "armed"
  /\ timer' = "fired"
  /\ Request("eth_requestAccounts", "absent")
  /\ webLast' = Did("timer")
  /\ UNCHANGED ethereum
  /\ UNCHANGED hostVars

ResponseText(method, success, result, errorMessage) ==
  [kind |-> "object", type |-> "ETH_RESPONSE", method |-> method,
   success |-> success, result |-> result, errorMessage |-> errorMessage]

WebPayloads ==
  {WebNonJson, WebJsonNull}
    \cup {[WebNonJson EXCEPT !.kind = "object", !.type = ty, !.method = "eth_requestAccounts",
                             !.success = Bool(TRUE), !.result = MockAccounts] :
            ty \in {"absent", "ETH_REQUEST"}}
    \cup {ResponseText(m, Bool(TRUE), r, Undefined) : m \in PageMethods, r \in {Null, MockAccounts}}
    \cup {ResponseText(m, Bool(FALSE), Undefined, e) :
            m \in PageMethods, e \in {Undefined, Str(""), Str("User rejected connection")}}
    \cup {ResponseText("eth_requestAccounts", Undefined, Undefined, Undefined)}

MatchesMethodOnly(d, method) == d.method = method

MatchesTypeOnly(d, method) == d.type = "ETH_RESPONSE"

\* the condition of handleMessage: data.type === 'ETH_RESPONSE' && data.method === method
Matches(d, method) == d.type = "ETH_RESPONSE" /\ d.method = method

HandleMessageNoDefault(c, d) ==
  IF ParseThrows(d) THEN c
  ELSE IF Matches(d, c.method)
  THEN IF Truthy(d.success)
       THEN [c EXCEPT !.state = "fulfilled", !.value = d.result, !.by = d]
       ELSE [c EXCEPT !.state = "rejected", !.value = d.errorMessage, !.by = d]
  ELSE c

\* handleMessage of the call record c on the event text d: the call as it is left
HandleMessage(c, d) ==
  IF ParseThrows(d) THEN c
  ELSE IF Matches(d, c.method)
  THEN IF Truthy(d.success)
       THEN [c EXCEPT !.state = "fulfilled", !.value = d.result, !.by = d]
       ELSE [c EXCEPT !.state = "rejected", !.value = OrElse(d.errorMessage, Str("Request failed")),
                      !.by = d]
  ELSE c

RemovesNever(c, d) == FALSE

\* handleMessage calls window.removeEventListener for itself
Removes(c, d) == ~ParseThrows(d) /\ Matches(d, c.method)

InvokedFirstOnly == IF listeners = << >> THEN {} ELSE {Head(listeners)}

\* the listeners a 'message' event is dispatched to: all that are registered
Invoked == {listeners[k] : k \in DOMAIN listeners}

\* A 'message' event with the text d reaches the window. Since the host posts
\* nothing (see SendWebViewResponse), every such event comes from the environment.
WindowMessage(d) ==
  /\ ethereum = "ours"
  /\ LET after == [i \in DOMAIN calls |-> IF i \in Invoked THEN HandleMessage(calls[i], d) ELSE calls[i]]
         n == Cardinality({i \in DOMAIN calls : after[i] # calls[i]})
     IN  calls' = [i \in DOMAIN calls |-> IF after[i] # calls[i] THEN [after[i] EXCEPT !.group = n] ELSE calls[i]]
  /\ listeners' = SelectSeq(listeners, LAMBDA i : ~(i \in Invoked /\ Removes(calls[i], d)))
  /\ webLast' = [op |-> IF ParseThrows(d) THEN "caught"
                         ELSE IF \E i \in Invoked : Removes(calls[i], d) THEN "settled"
                         ELSE "ignored",
                 type |-> d.type, method |-> d.method]
  /\ UNCHANGED <<ethereum, timer, outbox>>
  /\ UNCHANGED hostVars

WebReceive == \E d \in WebPayloads : WindowMessage(d)

\* texts that are not a Response: not JSON, no type field, or another type
MalformedWebText(d) == d.kind # "object" \/ d.type # "ETH_RESPONSE"

\* texts that are not a Request
MalformedHostText(p) == p.kind # "object" \/ p.type # "ETH_REQUEST"

\* only texts that are not a Response reach the window
WebStray == \E d \in {x \in WebPayloads : MalformedWebText(x)} : WindowMessage(d)

\* only texts that are not a Request reach the host
HostStray ==
  /\ \E p \in {x \in HostPayloads : MalformedHostText(x)} : HandleWebViewMessage(p, 0)
  /\ UNCHANGED webVars

\* The text at the head of the outbox is handed to handleWebViewMessage. The
\* WebView's onMessage prop is commented out in the source, so the delivery is a
\* step of the environment, as the protocol assumes it.
Relay ==
  /\ outbox # << >>
  /\ HandleWebViewMessage(Head(outbox).text, Head(outbox).call)
  /\ outbox' = Tail(outbox)
  /\ UNCHANGED <<ethereum, timer, calls, listeners, webLast>>

(* --------------------------- specifications --------------------------- *)

Init ==
  /\ ethereum \in {"none", "foreign"}
  /\ timer = "unset"
  /\ calls = << >>
  /\ listeners = << >>
  /\ outbox = << >>
  /\ webLast = Did("idle")
  /\ hostReqs = << >>
  /\ log = << >>
  /\ sent = << >>
  /\ toasts = << >>
  /\ hostLast = "idle"

NextHost == HostReceive \/ DebugButton \/ Decide

SpecHost == Init /\ [][NextHost]_vars

NextWeb == RunInjectedScript \/ PageRequest \/ AutoConnect \/ WebReceive

SpecWeb == Init /\ [][NextWeb]_vars

\* the event loop runs the callback of an armed timer
SpecWebFair == Init /\ [][NextWeb]_vars /\ WF_vars(AutoConnect)

NextStray == RunInjectedScript \/ PageRequest \/ AutoConnect \/ WebStray \/ HostStray \/ DebugButton \/ Decide

SpecStray == Init /\ [][NextStray]_vars

\* the two sides with the delivery of every posted text, the timer and the
\* user's decisions fair; other traffic on the channel is texts that are neither
\* a Request nor a Response
NextLive ==
  RunInjectedScript \/ PageRequest \/ AutoConnect \/ Relay \/ Decide \/ WebStray \/ HostStray

SpecLive ==
  Init /\ [][NextLive]_vars /\ WF_vars(AutoConnect) /\ WF_vars(Relay) /\ WF_vars(Decide)

Next == RunInjectedScript \/ PageRequest \/ AutoConnect \/ WebReceive \/ Relay \/ DebugButton \/ Decide

Spec == Init /\ [][Next]_vars

(* ------------------------------- claims -------------------------------- *)

\* the Response messages the host posted for the request r
ResponsesTo(r) == {k \in DOMAIN sent : sent[k].req = r}

\* the dispatch of the request r has run to its end (its Alert, if any, is decided)
Answered(r) == hostReqs[r].via = "message" /\ hostReqs[r].decision \in {"none", "approve", "reject"}

\* C1: every Request the host bridge received and dispatched to the end (the
\* decision taken when the method is gated) has exactly one Response message,
\* and that Response carries the Request's method.
C1_ExactlyOneResponse ==
  \A r \in DOMAIN hostReqs :
    /\ Cardinality(ResponsesTo(r)) <= 1
    /\ Answered(r) =>
         /\ Cardinality(ResponsesTo(r)) = 1
         /\ \A k \in ResponsesTo(r) : sent[k].method = hostReqs[r].method

C3_DecisionDecidesResponse ==
  \A r \in DOMAIN hostReqs :
    (hostReqs[r].via = "message" /\ hostReqs[r].decision \in {"approve", "reject"}) =>
      \E k \in ResponsesTo(r) :
        /\ sent[k].success = (hostReqs[r].decision = "approve")
        /\ (hostReqs[r].decision = "approve" /\ hostReqs[r].method = "eth_requestAccounts")
             => sent[k].result = Arr("0xDUMMY_WALLET_ADDRESS")
        /\ (hostReqs[r].decision = "approve" /\ hostReqs[r].method = "eth_sendTransaction")
             => sent[k].result = Str("0xDUMMY_TRANSACTION_HASH")
        /\ (hostReqs[r].decision = "approve" /\ hostReqs[r].method = "personal_sign")
             => sent[k].result = Str("0xFAKE_SIGNATURE")
        /\ (hostReqs[r].decision = "reject" /\ hostReqs[r].method = "eth_requestAccounts")
             => sent[k].errorMessage = Str("User rejected connection")
        /\ hostReqs[r].decision = "reject" => sent[k].errorMessage.t = "string"

\* C4: in every reachable state, whatever came before, a dispatched eth_chainId
\* has the Response success/"0x1", net_version success/"1",
\* wallet_switchEthereumChain success/null and eth_accounts success with the
\* account list of an approved eth_requestAccounts.
C4_ImmediateRepliesFixed ==
  \A r \in DOMAIN hostReqs :
    (hostReqs[r].via = "message" /\ hostReqs[r].method \in ImmediateMethods) =>
      \E k \in ResponsesTo(r) :
        /\ sent[k].success
        /\ hostReqs[r].method = "eth_chainId" => sent[k].result = Str("0x1")
        /\ hostReqs[r].method = "net_version" => sent[k].result = Str("1")
        /\ hostReqs[r].method = "wallet_switchEthereumChain" => sent[k].result = Null
        /\ hostReqs[r].method = "eth_accounts" => sent[k].result = Arr("0xDUMMY_WALLET_ADDRESS")

\* C5: a Request whose method is outside the dispatch table has a Response with
\* success false and an errorMessage containing the method name; no Alert was
\* opened for it and no exception left the dispatch.
C5_UnknownMethodFails ==
  \A r \in DOMAIN hostReqs :
    (hostReqs[r].via = "message" /\ hostReqs[r].method \notin SupportedMethods) =>
      /\ hostReqs[r].decision = "none"
      /\ \E k \in ResponsesTo(r) :
           /\ ~sent[k].success
           /\ Contains(sent[k].errorMessage, hostReqs[r].method)

\* C6: a text that is not a Request leaves the host's requests, Alerts, console
\* lines, posted texts and toasts as they were, and a text that is not a Response
\* leaves every call and every listener of the content side as it was.
C6_MalformedIgnored ==
  [][ /\ \A p \in HostPayloads :
           (MalformedHostText(p) /\ HandleWebViewMessage(p, 0)) => UNCHANGED <<hostReqs, log, sent, toasts>>
      /\ \A d \in WebPayloads :
           (MalformedWebText(d) /\ WindowMessage(d)) => UNCHANGED <<calls, listeners>> ]_vars

\* C6's case: both sides have just taken a malformed text, with a call pending
\* and an Alert open
C6_Witness ==
  /\ hostLast \in {"warned", "ignored"}
  /\ webLast.op \in {"caught", "ignored"}
  /\ \E i \in DOMAIN calls : calls[i].state = "pending"
  /\ \E r \in DOMAIN hostReqs : hostReqs[r].decision = "open"

\* the calls an ETH_RESPONSE text d is for: pending, with d's method
PendingFor(d) == {i \in DOMAIN calls : calls[i].state = "pending" /\ calls[i].method = d.method}

IsResponse(d) == d.kind = "object" /\ d.type = "ETH_RESPONSE"

\* the window has just taken an ETH_RESPONSE text with the method m
TookResponse(m) == webLast.op \in {"settled", "ignored"} /\ webLast.type = "ETH_RESPONSE" /\ webLast.method = m

\* C7: once the window has taken a text with type ETH_RESPONSE and the method of
\* a call, the call is no longer pending, and every settled call was settled by
\* such a text d: fulfilled with d.result if d.success is true, rejected with
\* d.errorMessage if d.success is false, and rejected with "Request failed" if
\* d.success is false and d.errorMessage is absent or empty.
C7_ResponseSettles ==
  \A i \in DOMAIN calls :
    /\ TookResponse(calls[i].method) => calls[i].state # "pending"
    /\ calls[i].state # "pending" =>
         LET d == calls[i].by
         IN  /\ IsResponse(d) /\ d.method = calls[i].method
             /\ d.success = Bool(TRUE) =>
                  calls[i].state = "fulfilled" /\ calls[i].value = d.result
             /\ (d.success = Bool(FALSE) /\ d.errorMessage \notin {Undefined, Str("")}) =>
                  calls[i].state = "rejected" /\ calls[i].value = d.errorMessage
             /\ (d.success = Bool(FALSE) /\ d.errorMessage \in {Undefined, Str("")}) =>
                  calls[i].state = "rejected" /\ calls[i].value = Str("Request failed")

\* C7's case: one call rejected with the default text for an empty errorMessage,
\* another fulfilled with the result of its Response
C7_Witness ==
  /\ \E i \in DOMAIN calls :
       /\ calls[i].state = "rejected" /\ calls[i].value = Str("Request failed")
       /\ calls[i].by.errorMessage = Str("")
  /\ \E i \in DOMAIN calls : calls[i].state = "fulfilled" /\ calls[i].value = MockAccounts

\* C8 as stated: of the pending calls with the method of a Response, the Response
\* settles the first registered one and leaves the others pending.
C8_OnlyFirstSettles ==
  [][ \A d \in WebPayloads : (IsResponse(d) /\ WindowMessage(d)) =>
        \A i \in PendingFor(d) :
          (calls'[i].state # "pending") <=> (\A j \in PendingFor(d) : i <= j) ]_vars

\* C8 amended: one Response settles every pending call with its method, so that
\* none of them is pending afterwards, and the calls settled by one event all
\* have the same outcome.
C8_AllSettle ==
  /\ \A i \in DOMAIN calls : TookResponse(calls[i].method) => calls[i].state # "pending"
  /\ \A i \in DOMAIN calls : calls[i].group >= 1 =>
       /\ Cardinality({j \in DOMAIN calls : calls[j].by = calls[i].by /\ calls[j].group = calls[i].group})
            >= calls[i].group
       /\ \A j \in DOMAIN calls : (calls[j].by = calls[i].by /\ calls[j].state # "pending") =>
            calls[j].state = calls[i].state /\ calls[j].value = calls[i].value

\* C8's case: two calls of one method settled by the same event
C8_Witness ==
  \E i, j \in DOMAIN calls :
    /\ i < j
    /\ calls[i].method = calls[j].method
    /\ calls[i].group = 2 /\ calls[j].group = 2
    /\ calls[i].state = "rejected" /\ calls[j].state = "rejected"

\* no two calls of the page name the same method
DistinctMethods == \A i, j \in DOMAIN calls : i # j => calls[i].method # calls[j].method

\* C9: with at most one call per method, a call of a gated method whose Request
\* has had its decision is settled with that decision's outcome, or the Response
\* carrying it is on its way; it is never settled otherwise.
C9_OwnDecisionSettles ==
  DistinctMethods =>
    \A r \in DOMAIN hostReqs :
      (hostReqs[r].call # 0 /\ hostReqs[r].decision \in {"approve", "reject"}) =>
        LET c == calls[hostReqs[r].call]
            won == IF hostReqs[r].decision = "approve" THEN "fulfilled" ELSE "rejected"
        IN  \/ c.state = won
            \/ /\ c.state = "pending"
               /\ \E k \in ResponsesTo(r) : sent[k].success = (hostReqs[r].decision = "approve")

\* C10: a call leaves the pending state only in the step in which the window
\* takes an ETH_RESPONSE text with the call's method; in every other step
\* (timer, new calls, other texts) it stays pending.
C10_SettledOnlyByResponse ==
  [][ \A i \in DOMAIN calls : (calls[i].state = "pending" /\ calls'[i].state # "pending") =>
        /\ webLast' = [op |-> "settled", type |-> "ETH_RESPONSE", method |-> calls[i].method]
        /\ IsResponse(calls'[i].by) /\ calls'[i].by.method = calls[i].method ]_vars

\* C10's case: a call still pending after the timer fired and after a Response
\* for another method was taken, which settled another call
C10_Witness ==
  /\ timer = "fired"
  /\ \E i, j \in DOMAIN calls :
       /\ calls[i].state = "pending"
       /\ calls[j].state # "pending"
       /\ webLast = [op |-> "settled", type |-> "ETH_RESPONSE", method |-> calls[j].method]

\* C11: when a window.ethereum exists as the injected script runs, it is kept,
\* and no timer is armed, no listener registered and no Request posted, in that
\* step and in every later one.
C11_GuardKeepsProvider ==
  [][ ethereum = "foreign" =>
        /\ ethereum' = "foreign"
        /\ timer' = "unset"
        /\ calls' = << >> /\ listeners' = << >> /\ outbox' = << >> ]_vars

\* C11's case: the script has run and found a provider in place
C11_Witness == ethereum = "foreign" /\ webLast.op = "skipped"

\* the Request text of the auto-connect, posted for the call c
AutoConnectPost(c) == [text |-> RequestText("eth_requestAccounts", "absent"), call |-> c]

\* C12: the installation step arms the timer and posts nothing; the timer's
\* callback runs once, posts one eth_requestAccounts Request and is never armed
\* again; and once the provider is installed the callback does run.
C12_AutoConnectOnce ==
  /\ [][ /\ (ethereum = "none" /\ ethereum' = "ours") =>
              timer' = "armed" /\ calls' = calls /\ outbox' = outbox
         /\ (webLast' = Did("timer") /\ webLast' # webLast) =>
              /\ timer = "armed" /\ timer' = "fired"
              /\ outbox' = Append(outbox, AutoConnectPost(Len(calls) + 1))
              /\ Len(calls') = Len(calls) + 1
         /\ (webLast' = Did("timer") /\ webLast' = webLast) => outbox' = outbox
         /\ timer = "fired" => timer' = "fired"
         /\ timer' = "armed" => (timer = "armed" \/ ethereum = "none") ]_vars
  /\ (ethereum = "ours") ~> (timer = "fired")

\* C12's case: the timer has fired after a call of the page, and its Request is
\* the last one posted
C12_Witness ==
  /\ timer = "fired"
  /\ webLast = Did("timer")
  /\ Len(outbox) = 2
  /\ outbox[2] = AutoConnectPost(2)

\* C13: after every step the registered listeners are those of the pending
\* calls, one each, and a call that is settled stays as it is, whatever text the
\* window takes later.
C13_ListenersArePending ==
  [][ /\ listeners' = SelectSeq([i \in DOMAIN calls' |-> i], LAMBDA i : calls'[i].state = "pending")
      /\ \A i \in DOMAIN calls : calls[i].state # "pending" => calls'[i] = calls[i] ]_vars

\* C13's case: a settled call whose method came again in a later Response, which
\* found no listener, while another call is pending with its listener
C13_Witness ==
  \E i, j \in DOMAIN calls :
    /\ calls[i].state # "pending"
    /\ webLast = [op |-> "ignored", type |-> "ETH_RESPONSE", method |-> calls[i].method]
    /\ calls[j].state = "pending"
    /\ listeners = <<j>>

\* the console lines sendWebViewResponse wrote for the request r
LinesOf(r) == {i \in DOMAIN log : log[i].req = r}

\* C14: while the Alert of a gated Request is open, a Request for an immediate
\* method received after it already has its Response.
C14_AnsweredWhileOpen ==
  \A r1, r2 \in DOMAIN hostReqs :
    ( /\ r1 < r2
      /\ hostReqs[r1].via = "message" /\ hostReqs[r1].decision = "open"
      /\ hostReqs[r2].via = "message" /\ hostReqs[r2].method \in ImmediateMethods ) =>
      ResponsesTo(r2) # {}

\* C15: an Alert that is open has run no callback; an Alert that is closed has run
\* exactly one callback, once, and its Request has a Response.
C15_GateResolvesOnce ==
  \A r \in DOMAIN hostReqs :
    /\ hostReqs[r].decision = "open" => LinesOf(r) = {}
    /\ hostReqs[r].decision \in {"approve", "reject"} =>
         /\ Cardinality(LinesOf(r)) = 1
         /\ Cardinality(ResponsesTo(r)) = 1

\* C16: every dispatch, Alert and Response of the host belongs to a Request text
\* that a request() call of the provider posted, with the same method, and there
\* are no more Responses than Requests received.
C16_OnlyRequestsDispatch ==
  /\ \A r \in DOMAIN hostReqs :
       /\ hostReqs[r].via = "message"
       /\ hostReqs[r].call \in DOMAIN calls
       /\ calls[hostReqs[r].call].method = hostReqs[r].method
  /\ \A k \in DOMAIN sent : sent[k].req \in DOMAIN hostReqs
  /\ Len(sent) <= Cardinality({r \in DOMAIN hostReqs : hostReqs[r].via = "message"})

\* C17: a Request has an Alert exactly if its method is eth_requestAccounts,
\* eth_sendTransaction or personal_sign; while that Alert is open it has no
\* Response, and a Request of any other method has its Response as soon as it is
\* dispatched.
C17_GateIffGated ==
  \A r \in DOMAIN hostReqs :
    hostReqs[r].via = "message" =>
      /\ (hostReqs[r].method \in GatedMethods) <=> (hostReqs[r].decision \in {"open", "approve", "reject"})
      /\ hostReqs[r].decision = "open" => ResponsesTo(r) = {}
      /\ hostReqs[r].method \notin GatedMethods => Cardinality(ResponsesTo(r)) = 1

\* C18: a personal_sign Request reaches its Alert whatever the shape of params,
\* and has exactly one Response once the Alert is decided.
C18_PersonalSignAnyParams ==
  \A r \in DOMAIN hostReqs :
    (hostReqs[r].via = "message" /\ hostReqs[r].method = "personal_sign") =>
      /\ hostReqs[r].decision \in {"open", "approve", "reject"}
      /\ hostReqs[r].decision \in {"approve", "reject"} => Cardinality(ResponsesTo(r)) = 1

\* C19: with every posted text delivered, the timer run and every Alert decided,
\* and no two calls of one method, every call of request() is settled in the end.
C19_EveryCallSettles ==
  ([]DistinctMethods) => \A i \in 1..MaxCalls : [](i \in DOMAIN calls => <>(i \in DOMAIN calls /\ calls[i].state # "pending"))

====
